---- MODULE Spec2Model ----
(***************************************************************************)
(* The input pipeline of examples/vision/ipynb/fixres.ipynb: the two       *)
(* per-example preprocessing functions (preprocess_initial._pp and         *)
(* preprocess_finetune) and make_dataset, which validates the resolution,  *)
(* selects the preprocessing function and chains                           *)
(*     [shuffle ->] map -> batch -> prefetch                               *)
(* over a source dataset.                                                  *)
(*                                                                         *)
(* An image is modelled by its sampling geometry: which raw picture it is  *)
(* taken from, its shape, and for each axis the affine map                 *)
(*     index i  |->  (a*i + b) / d                                         *)
(* from an output index to the coordinate of the raw picture that the      *)
(* pixel samples.  tf.slice, tf.image.resize (bilinear, half-pixel         *)
(* centres), flip_left_right and CenterCrop are each an affine re-indexing *)
(* of an axis, so each is modelled by composing its map onto the image's.  *)
(* Two images of the same picture with the same shape and the same maps    *)
(* have the same pixels.                                                   *)
(***************************************************************************)
EXTENDS Integers, Sequences, FiniteSets, TLC

VARIABLES
    image_size,      \* make_dataset argument
    train,           \* make_dataset argument
    fixres,          \* make_dataset argument
    num_examples,    \* cardinality of the source dataset
    parallelism,     \* what the runtime tuned num_parallel_calls = AUTOTUNE to
    budget,          \* how many random draws of a run are explored freely
    pc,              \* "call" | "raised" | "iterating" | "done"
    error,           \* the exception make_dataset raised, or "none"
    preprocess_func, \* the preprocessing function make_dataset selected
    stages,          \* the dataset stages make_dataset chained, in order
    srcPos,          \* how many source examples have been read
    shuffleBuf,      \* the shuffle stage's buffer
    mapQueue,        \* the map stage's invocations, in input order
    mapInputEnd,     \* the map stage's input reported end of sequence
    nextPos,         \* position, in the map stage's input stream, of the next element
    batchAcc,        \* the batch being assembled
    batchEnd,        \* the batch stage reported end of sequence
    prefetchBuf,     \* the prefetch stage's buffer of finished batches
    consumed,        \* the batches the consumer received, in order
    draws            \* how many random draws were made

vars == <<image_size, train, fixres, num_examples, parallelism, budget, pc, error,
          preprocess_func, stages, srcPos, shuffleBuf, mapQueue, mapInputEnd,
          nextPos, batchAcc, batchEnd, prefetchBuf, consumed, draws>>

---------------------------------------------------------------------------
(* Program constants.                                                      *)

batch_size == 128
smaller_size == 128
bigger_size == 224
num_classes == 5

\* int((bigger_size / smaller_size) * bigger_size): 224/128 = 1.75 is exact in
\* binary floating point, so the product is the exact rational, truncated.
size_for_resizing_floordiv == (bigger_size \div smaller_size) * bigger_size
size_for_resizing == (bigger_size * bigger_size) \div smaller_size

\* dataset.shuffle(batch_size * 10)
shuffle_buffer_size_plus_one == batch_size * 10 + 1
shuffle_buffer_size == batch_size * 10

---------------------------------------------------------------------------
(* Bounds of the model.                                                    *)

MaxSmall == 3        \* Spec: source datasets of 0..MaxSmall examples
MaxBatches == 2      \* SpecBatch: sources of about 1..MaxBatches full batches
MaxOver == 1         \* SpecShuffle: sources of 1..MaxOver more than the shuffle buffer
MaxParallel == 2     \* Spec, SpecBatch: invocations of the map function in flight
MaxPrefetch == 1     \* prefetch(AUTOTUNE): batches buffered
MaxBigEntropy == 1   \* SpecShuffle: random draws explored freely

\* Shapes (height, width) of the raw pictures of the source dataset, one
\* smaller and one larger than every target size; example i shows picture
\* i % Len(RawShapes), so examples repeat pictures.
RawShapes == << <<96, 96>>, <<300, 400>> >>

\* Resolutions make_dataset is called with; 100 and 256 are unsupported.
ImageSizes == {100, smaller_size, bigger_size, 256}

\* A random crop window's height and width are the picture's divided by one
\* of these, and it sits in a corner of the picture.
CropFractions == {1, 2}

---------------------------------------------------------------------------
(* Images.                                                                 *)

AxisId == <<1, 0, 1>>

\* m maps x to (m[1]*x + m[2]) / m[3]; p re-indexes x = (p[1]*y + p[2]) / p[3].
Compose(m, p) == <<m[1] * p[1], m[1] * p[2] + m[2] * p[3], m[3] * p[3]>>

RawImage(pic) ==
    [pic |-> pic,
     shape |-> <<RawShapes[pic + 1][1], RawShapes[pic + 1][2], 3>>,
     row |-> AxisId, col |-> AxisId, ops |-> << >>]

\* tf.slice(image, begin, size) with begin = [y, x, 0], size = [h, w, -1]
tf_slice(image, win) ==
    [image EXCEPT !.shape = <<win.h, win.w, image.shape[3]>>,
                  !.row = Compose(image.row, <<1, win.y, 1>>),
                  !.col = Compose(image.col, <<1, win.x, 1>>),
                  !.ops = Append(image.ops, "slice")]

\* tf.image.resize(image, [h, w]): output index i samples input coordinate
\* (i + 1/2) * in/out - 1/2 = ((2*i + 1)*in - out) / (2*out)
tf_image_resize(image, h, w) ==
    [image EXCEPT !.shape = <<h, w, image.shape[3]>>,
                  !.row = Compose(image.row,
                                  <<2 * image.shape[1], image.shape[1] - h, 2 * h>>),
                  !.col = Compose(image.col,
                                  <<2 * image.shape[2], image.shape[2] - w, 2 * w>>),
                  !.ops = Append(image.ops, "resize")]

\* tf.image.flip_left_right: column j shows column width-1-j
flip_left_right(image) ==
    [image EXCEPT !.col = Compose(image.col, <<-1, image.shape[2] - 1, 1>>),
                  !.ops = Append(image.ops, "flip")]

\* tf.image.random_flip_left_right, given the outcome of its coin
random_flip_left_right(image, flip) ==
    IF flip THEN flip_left_right(image) ELSE image

\* layers.CenterCrop(height, width): the first row and column of the crop
CenterCropStartNoHalving(extent, target) == extent - target
CenterCropStart(extent, target) == (extent - target) \div 2

\* layers.CenterCrop(height, width) applied to one image: a crop when the
\* image is at least as large as the target, a resize otherwise.
CenterCrop(image, height, width) ==
    IF image.shape[1] >= height /\ image.shape[2] >= width
    THEN [image EXCEPT
            !.shape = <<height, width, image.shape[3]>>,
            !.row = Compose(image.row,
                            <<1, CenterCropStart(image.shape[1], height), 1>>),
            !.col = Compose(image.col,
                            <<1, CenterCropStart(image.shape[2], width), 1>>),
            !.ops = Append(image.ops, "crop")]
    ELSE tf_image_resize(image, height, width)

central_crop_layer(image) == CenterCrop(image, bigger_size, bigger_size)

WholeImage(shape) == [y |-> 0, x |-> 0, h |-> shape[1], w |-> shape[2]]

\* tf.image.sample_distorted_bounding_box(shape, no boxes,
\*     area_range=(0.05, 1.0), min_object_covered=0,
\*     use_image_if_no_bounding_boxes=True), aspect_ratio_range at its default
\* (0.75, 1.33): the windows it may return, the whole image when none fits.
SampleWindows(shape) ==
    LET H == shape[1]
        W == shape[2]
        cand == {[y |-> y, x |-> x, h |-> h, w |-> w] :
                    y \in {0} \cup {H - (H \div f) : f \in CropFractions},
                    x \in {0} \cup {W - (W \div f) : f \in CropFractions},
                    h \in {H \div f : f \in CropFractions},
                    w \in {W \div f : f \in CropFractions}}
        fit == {win \in cand :
                  /\ win.h >= 1 /\ win.w >= 1
                  /\ win.y \in {0, H - win.h}
                  /\ win.x \in {0, W - win.w}
                  /\ 20 * win.h * win.w >= H * W
                  /\ win.h * win.w <= H * W
                  /\ 100 * win.w >= 75 * win.h
                  /\ 100 * win.w <= 133 * win.h}
    IN  IF fit = {} THEN {WholeImage(shape)} ELSE fit

---------------------------------------------------------------------------
(* The preprocessing functions.  window and flip are the outcomes of the   *)
(* random operations; a function reads them only where the code draws.     *)

\* preprocess_initial(train, image_size)._pp(image, label, train)
preprocess_initial_pp(image, label, is_train, size, window, flip) ==
    IF is_train
    THEN [image |-> random_flip_left_right(
                        tf_image_resize(tf_slice(image, window), size, size), flip),
          label |-> label]
    ELSE [image |-> tf_image_resize(image, size, size), label |-> label]

\* preprocess_finetune(image, label, train) with the flip made unconditionally
preprocess_finetune_always_flips(image, label, is_train, flip) ==
    [image |-> central_crop_layer(
                   random_flip_left_right(
                       tf_image_resize(image, size_for_resizing, size_for_resizing),
                       flip)),
     label |-> label]

\* preprocess_finetune(image, label, train) without the final crop
preprocess_finetune_no_crop(image, label, is_train, flip) ==
    [image |-> LET resized == tf_image_resize(image, size_for_resizing,
                                              size_for_resizing)
               IN  IF is_train THEN random_flip_left_right(resized, flip)
                   ELSE resized,
     label |-> label]

\* preprocess_finetune(image, label, train)
preprocess_finetune(image, label, is_train, flip) ==
    [image |-> LET resized == tf_image_resize(image, size_for_resizing,
                                              size_for_resizing)
               IN  central_crop_layer(
                       IF is_train THEN random_flip_left_right(resized, flip)
                       ELSE resized),
     label |-> label]

NoFunc == [name |-> "none", image_size |-> 0]

\* The closure preprocess_initial(train, image_size) returns: _pp reads only
\* image_size of the enclosing call (its own train parameter shadows the outer).
preprocess_initial(size) == [name |-> "preprocess_initial", image_size |-> size]

\* preprocess_finetune takes no size: its output is central_crop_layer's.
finetune_func == [name |-> "preprocess_finetune", image_size |-> bigger_size]

\* make_dataset's choice of preprocess_func with the fixres test inverted
SelectPreprocessInverted(size, is_fixres) ==
    IF size = smaller_size THEN preprocess_initial(size)
    ELSE IF is_fixres /\ size = bigger_size THEN preprocess_initial(size)
    ELSE finetune_func

\* make_dataset: "Determine which preprocessing function we are using."
SelectPreprocess(size, is_fixres) ==
    IF size = smaller_size THEN preprocess_initial(size)
    ELSE IF ~is_fixres /\ size = bigger_size THEN preprocess_initial(size)
    ELSE finetune_func

\* lambda x, y: preprocess_func(x, y, train)
ApplyPreprocess(func, image, label, is_train, window, flip) ==
    IF func.name = "preprocess_initial"
    THEN preprocess_initial_pp(image, label, is_train, func.image_size, window, flip)
    ELSE preprocess_finetune(image, label, is_train, flip)

\* How many random operations one call of the function executes.
DrawsOf(func, is_train) ==
    IF ~is_train THEN 0
    ELSE IF func.name = "preprocess_initial" THEN 2 ELSE 1

---------------------------------------------------------------------------
(* The source dataset: an ordered, finite sequence of (image, label);      *)
(* id names the example (its index), and is carried to tell examples apart.*)

Source(i) ==
    [id |-> i, image |-> RawImage(i % Len(RawShapes)), label |-> i % num_classes]

\* image_size not in [smaller_size, bigger_size], never rejecting
UnsupportedNever(size) == FALSE
Unsupported(size) == size \notin {smaller_size, bigger_size}

\* if train: dataset = dataset.shuffle(...), shuffling whatever train is
HasShuffleAlways(is_train) == TRUE
HasShuffle(is_train) == is_train

\* The stages make_dataset chains onto the source, in order.
BuildStages(is_train) ==
    (IF HasShuffle(is_train) THEN <<"shuffle">> ELSE << >>)
        \o <<"map", "batch", "prefetch">>

Range(seq) == {seq[k] : k \in 1..Len(seq)}
Min(a, b) == IF a < b THEN a ELSE b

\* The outcomes explored for a random draw that is the n-th of the action
\* (n = 0, 1): all of S while the run's budget lasts, then dflt alone.
Draw(S, dflt, n) == IF draws + n < budget THEN S ELSE {dflt}

\* The slots of a buffer of n elements the shuffle's random pick is explored
\* for: every slot of a small buffer, the first and the last of a large one.
PickSlots(n) == IF n <= MaxSmall + 1 THEN 1..n ELSE {1, n}

---------------------------------------------------------------------------
(* Initial states: a call of make_dataset about to run.                    *)

InitPipeline ==
    /\ pc = "call"
    /\ error = "none"
    /\ preprocess_func = NoFunc
    /\ stages = << >>
    /\ srcPos = 0
    /\ shuffleBuf = << >>
    /\ mapQueue = << >>
    /\ mapInputEnd = FALSE
    /\ nextPos = 0
    /\ batchAcc = << >>
    /\ batchEnd = FALSE
    /\ prefetchBuf = << >>
    /\ consumed = << >>
    /\ draws = 0

\* Every resolution and flag, small sources, every random draw explored.
Init ==
    /\ image_size \in ImageSizes
    /\ train \in BOOLEAN
    /\ fixres \in BOOLEAN
    /\ num_examples \in 0..MaxSmall
    /\ parallelism = MaxParallel
    /\ budget = 3 * MaxSmall
    /\ InitPipeline

\* Source sizes: none, less than a batch, one batch, MaxBatches batches,
\* one example more.
BatchSizes ==
    {0, 1, batch_size} \cup {MaxBatches * batch_size + d : d \in {0, 1}}

\* The notebook's initial_train_dataset, initial_val_dataset and
\* finetune_val_dataset (fixres at its default), over sources of about
\* 0..MaxBatches batches.  Every random draw takes its default outcome: the
\* shuffle hands on the newest element of its buffer, the crop is the whole
\* image, the coin says no flip.
InitBatch ==
    /\ image_size \in {smaller_size, bigger_size}
    /\ train \in BOOLEAN
    /\ train => image_size = smaller_size
    /\ fixres = TRUE
    /\ num_examples \in BatchSizes
    /\ parallelism = MaxParallel
    /\ budget = 0
    /\ InitPipeline

\* The fine-tuning datasets of the notebook: training sources larger than the
\* shuffle buffer, evaluation sources small, one invocation at a time.
InitShuffle ==
    /\ image_size = bigger_size
    /\ train \in BOOLEAN
    /\ fixres = TRUE
    /\ num_examples \in IF train THEN {batch_size * 10 + k : k \in 1..MaxOver}
                                 ELSE 0..MaxSmall
    /\ parallelism = 1
    /\ budget = MaxBigEntropy
    /\ InitPipeline

---------------------------------------------------------------------------
(* Actions.                                                                *)

pipelineVars == <<srcPos, shuffleBuf, mapQueue, mapInputEnd, nextPos, batchAcc,
                  batchEnd, prefetchBuf, consumed, draws>>
argVars == <<image_size, train, fixres, num_examples, parallelism, budget>>

\* make_dataset(dataset, train, image_size, fixres): raise on an unsupported
\* resolution, else select preprocess_func and chain the stages.  The stages
\* are lazy: nothing is read until the result is iterated.
MakeDataset ==
    /\ pc = "call"
    /\ IF Unsupported(image_size)
       THEN /\ pc' = "raised"
            /\ error' = "ValueError"
            /\ UNCHANGED <<preprocess_func, stages>>
       ELSE /\ pc' = "iterating"
            /\ preprocess_func' = SelectPreprocess(image_size, fixres)
            /\ stages' = BuildStages(train)
            /\ UNCHANGED error
    /\ UNCHANGED <<argVars, pipelineVars>>

\* What the shuffle stage's GetNext reads from the source before it picks:
\* it fills its buffer until it holds shuffle_buffer_size elements or the
\* source ends.
FillCount == Min(shuffle_buffer_size - Len(shuffleBuf), num_examples - srcPos)

\* The map stage takes its next input element and starts an invocation of
\* preprocess_func on it.  With a shuffle stage the input is the shuffle's
\* GetNext: fill the buffer, pick a slot at random, move the first element
\* into the picked slot and drop the first slot.  Without, the source's next.
MapStart ==
    /\ pc = "iterating"
    /\ ~mapInputEnd
    /\ Len(mapQueue) < parallelism
    /\ IF "shuffle" \in Range(stages)
       THEN LET n == FillCount
                filled == shuffleBuf \o [k \in 1..n |-> Source(srcPos + k - 1)]
            IN  IF filled = << >>
                THEN /\ mapInputEnd' = TRUE
                     /\ UNCHANGED <<srcPos, shuffleBuf, mapQueue, nextPos, draws>>
                ELSE \E k \in Draw(PickSlots(Len(filled)), Len(filled), 0) :
                        /\ mapQueue' = Append(mapQueue,
                                [elem |-> filled[k], pos |-> nextPos, done |-> FALSE])
                        /\ shuffleBuf' = Tail([filled EXCEPT ![k] = filled[1]])
                        /\ srcPos' = srcPos + n
                        /\ nextPos' = nextPos + 1
                        /\ draws' = draws + 1
                        /\ UNCHANGED mapInputEnd
       ELSE IF srcPos = num_examples
            THEN /\ mapInputEnd' = TRUE
                 /\ UNCHANGED <<srcPos, shuffleBuf, mapQueue, nextPos, draws>>
            ELSE /\ mapQueue' = Append(mapQueue,
                        [elem |-> Source(srcPos), pos |-> nextPos, done |-> FALSE])
                 /\ srcPos' = srcPos + 1
                 /\ nextPos' = nextPos + 1
                 /\ UNCHANGED <<shuffleBuf, mapInputEnd, draws>>
    /\ UNCHANGED <<argVars, pc, error, preprocess_func, stages, batchAcc,
                   batchEnd, prefetchBuf, consumed>>

\* The crop windows explored for one invocation: sample_distorted_bounding_box
\* runs only in preprocess_initial's training branch.
Windows(func, is_train, shape) ==
    IF is_train /\ func.name = "preprocess_initial"
    THEN Draw(SampleWindows(shape), WholeImage(shape), 0)
    ELSE {WholeImage(shape)}

\* The coin outcomes explored for one invocation; the function reads the coin
\* only where the code flips one, as the last random operation of the call.
Coins(func, is_train) ==
    IF is_train THEN Draw(BOOLEAN, FALSE, DrawsOf(func, is_train) - 1)
    ELSE Draw(BOOLEAN, FALSE, 0)

\* An invocation in flight finishes: preprocess_func(x, y, train) on its
\* element.  Invocations finish in any order.
MapComplete ==
    /\ pc = "iterating"
    /\ \E k \in 1..Len(mapQueue) :
          /\ ~mapQueue[k].done
          /\ LET e == mapQueue[k].elem IN
             \E window \in Windows(preprocess_func, train, e.image.shape) :
             \E flip \in Coins(preprocess_func, train) :
                LET out == ApplyPreprocess(preprocess_func, e.image, e.label,
                                           train, window, flip)
                IN  mapQueue' = [mapQueue EXCEPT ![k] =
                        [elem |-> [id |-> e.id, image |-> out.image,
                                   label |-> out.label],
                         pos |-> mapQueue[k].pos, done |-> TRUE]]
    /\ draws' = draws + DrawsOf(preprocess_func, train)
    /\ UNCHANGED <<argVars, pc, error, preprocess_func, stages, srcPos,
                   shuffleBuf, mapInputEnd, nextPos, batchAcc, batchEnd,
                   prefetchBuf, consumed>>

\* The invocation whose result the map stage hands on next, in completion order
MapOutputSlotUnordered == CHOOSE k \in 1..Len(mapQueue) : mapQueue[k].done
\* The invocation whose result the map stage hands on next: the oldest
\* (map(..., num_parallel_calls) is deterministic unless asked otherwise).
MapOutputSlot == 1

RemoveAt(seq, k) == SubSeq(seq, 1, k - 1) \o SubSeq(seq, k + 1, Len(seq))

\* batch(n): a batch is handed on when it holds n elements, with n + 1
BatchIsFullOffByOne(acc) == Len(acc) = batch_size + 1
\* batch(batch_size): a batch is handed on when it holds batch_size elements
BatchIsFull(acc) == Len(acc) = batch_size

\* batch(batch_size) dropping a final partial batch
FinalBatchDropped(acc) == << >>
\* batch(batch_size), drop_remainder at its default: at the end of the input
\* the elements assembled so far, if any, are the last batch.
FinalBatch(acc) == IF acc = << >> THEN << >> ELSE <<acc>>

\* The prefetch stage's thread, which runs while its buffer has room, pulls
\* the batch stage, which takes the map stage's next result into the batch
\* being assembled and hands the batch on when it is full.
BatchPull ==
    /\ pc = "iterating"
    /\ Len(prefetchBuf) < MaxPrefetch
    /\ \E k \in 1..Len(mapQueue) : mapQueue[k].done
    /\ MapOutputSlot <= Len(mapQueue)
    /\ mapQueue[MapOutputSlot].done
    /\ LET acc == Append(batchAcc, mapQueue[MapOutputSlot].elem) IN
          IF BatchIsFull(acc)
          THEN /\ prefetchBuf' = Append(prefetchBuf, acc)
               /\ batchAcc' = << >>
          ELSE /\ batchAcc' = acc
               /\ UNCHANGED prefetchBuf
    /\ mapQueue' = RemoveAt(mapQueue, MapOutputSlot)
    /\ UNCHANGED <<argVars, pc, error, preprocess_func, stages, srcPos,
                   shuffleBuf, mapInputEnd, nextPos, batchEnd, consumed, draws>>

\* The map stage is exhausted: the batch stage hands on the partial batch,
\* if any, and reports end of sequence.
BatchEnd ==
    /\ pc = "iterating"
    /\ Len(prefetchBuf) < MaxPrefetch
    /\ mapInputEnd
    /\ mapQueue = << >>
    /\ ~batchEnd
    /\ prefetchBuf' = prefetchBuf \o FinalBatch(batchAcc)
    /\ batchAcc' = << >>
    /\ batchEnd' = TRUE
    /\ UNCHANGED <<argVars, pc, error, preprocess_func, stages, srcPos,
                   shuffleBuf, mapQueue, mapInputEnd, nextPos, consumed, draws>>

\* The consumer takes the next batch from the prefetch buffer.
Consume ==
    /\ pc = "iterating"
    /\ prefetchBuf # << >>
    /\ consumed' = Append(consumed, Head(prefetchBuf))
    /\ prefetchBuf' = Tail(prefetchBuf)
    /\ UNCHANGED <<argVars, pc, error, preprocess_func, stages, srcPos,
                   shuffleBuf, mapQueue, mapInputEnd, nextPos, batchAcc,
                   batchEnd, draws>>

\* The consumer reaches the end of the pass.
Finish ==
    /\ pc = "iterating"
    /\ batchEnd
    /\ prefetchBuf = << >>
    /\ pc' = "done"
    /\ UNCHANGED <<argVars, error, preprocess_func, stages, pipelineVars>>

Next ==
    \/ MakeDataset
    \/ MapStart
    \/ MapComplete
    \/ BatchPull
    \/ BatchEnd
    \/ Consume
    \/ Finish

Spec == Init /\ [][Next]_vars
SpecBatch == InitBatch /\ [][Next]_vars
SpecShuffle == InitShuffle /\ [][Next]_vars

---------------------------------------------------------------------------
(* Properties.                                                             *)

RECURSIVE Flatten(_)
Flatten(batches) ==
    IF batches = << >> THEN << >> ELSE Head(batches) \o Flatten(Tail(batches))

\* The examples that have left the map function, wherever they are now.
Outputs ==
    {mapQueue[k].elem : k \in {j \in 1..Len(mapQueue) : mapQueue[j].done}}
        \cup Range(batchAcc)
        \cup UNION {Range(b) : b \in Range(prefetchBuf)}
        \cup UNION {Range(b) : b \in Range(consumed)}

Supported == image_size \in {128, 224}

\* C1: for a supported resolution r, whatever train, fixres and the input
\* picture's size, every image that leaves the per-example transform has
\* shape [r, r, 3].
C1_UniformShape ==
    Supported => \A e \in Outputs : e.image.shape = <<image_size, image_size, 3>>

\* Fine-tune strategy, training: a batch of three examples, two input sizes.
C1_Witness ==
    /\ pc = "done" /\ image_size = 224 /\ fixres /\ train
    /\ Len(consumed) = 1 /\ Len(consumed[1]) = 3
    /\ \E e \in Range(consumed[1]) : RawShapes[e.image.pic + 1] = <<300, 400>>
    /\ \E e \in Range(consumed[1]) : RawShapes[e.image.pic + 1] = <<96, 96>>

\* C2: a resolution outside {128, 224} makes make_dataset raise, as its only
\* step: no function is selected, no stage is built, no example is read,
\* transformed, batched or delivered.
C2_FailFast ==
    ~Supported =>
        /\ pc \in {"call", "raised"}
        /\ pc = "raised" => error = "ValueError"
        /\ preprocess_func.name = "none"
        /\ stages = << >>
        /\ srcPos = 0 /\ nextPos = 0 /\ draws = 0
        /\ shuffleBuf = << >> /\ mapQueue = << >> /\ batchAcc = << >>
        /\ prefetchBuf = << >> /\ consumed = << >>

C2_Witness == image_size = 100 /\ pc = "raised" /\ error = "ValueError"

\* C3: once make_dataset has returned, the function it selected is
\* preprocess_initial with the requested size exactly when the resolution is
\* 128, or 224 with fixres off, and preprocess_finetune exactly when it is
\* 224 with fixres on; train plays no part.
C3_Selection ==
    pc \in {"iterating", "done"} =>
        /\ preprocess_func.name \in {"preprocess_initial", "preprocess_finetune"}
        /\ preprocess_func.name = "preprocess_initial"
              <=> (image_size = 128 \/ (image_size = 224 /\ ~fixres))
        /\ preprocess_func.name = "preprocess_finetune"
              <=> (image_size = 224 /\ fixres)
        /\ preprocess_func.name = "preprocess_initial"
              => preprocess_func.image_size = image_size

\* Resolution 224 without fixres: the initial strategy, at size 224, at work.
C3_Witness ==
    /\ pc = "iterating" /\ image_size = 224 /\ ~fixres
    /\ preprocess_func = [name |-> "preprocess_initial", image_size |-> 224]
    /\ \E e \in Outputs : "slice" \in Range(e.image.ops)

\* Image a shows the same pixels as image b.
SamePixels(a, b) ==
    a.pic = b.pic /\ a.shape = b.shape /\ a.row = b.row /\ a.col = b.col

\* Image a is image b mirrored left to right: column j of a samples what
\* column width-1-j of b samples, and the rows agree.
MirrorOf(a, b) ==
    /\ a.pic = b.pic /\ a.shape = b.shape /\ a.row = b.row
    /\ a.col = <<-b.col[1], b.col[1] * (b.shape[2] - 1) + b.col[2], b.col[3]>>

\* C6: when train is false no random operation runs, and any two outputs for
\* the same input picture are the same image: the resized full frame under
\* the initial strategy, the resized then center-cropped frame under the
\* fine-tune strategy, never sliced and never flipped.
C6_EvalDeterministic ==
    (Supported /\ ~train) =>
        /\ draws = 0
        /\ \A e1, e2 \in Outputs :
              e1.image.pic = e2.image.pic => e1.image = e2.image
        /\ \A e \in Outputs :
              e.image.ops = IF image_size = 224 /\ fixres
                            THEN <<"resize", "crop">> ELSE <<"resize">>

\* Evaluation: examples 0 and 2 show the same picture and both were transformed.
C6_Witness ==
    /\ ~train /\ image_size = 224 /\ fixres /\ pc = "done"
    /\ \E e1, e2 \in Outputs :
          e1.id = 0 /\ e2.id = 2 /\ e1.image.pic = e2.image.pic

\* C7: at resolution 224 with fixres, training, any two outputs for the same
\* input picture are equal or left-right mirrors of each other, with the same
\* rows (the crop window never moves) and shape [224, 224, 3]; the flip, when
\* made, comes after the resize and before the crop.
C7_FlipOnly ==
    (image_size = 224 /\ fixres /\ train) =>
        \A e1, e2 \in Outputs :
            /\ e1.image.shape = <<224, 224, 3>>
            /\ e1.image.ops \in {<<"resize", "crop">>, <<"resize", "flip", "crop">>}
            /\ e1.image.pic = e2.image.pic =>
                  /\ e1.image.row = e2.image.row
                  /\ SamePixels(e1.image, e2.image) \/ MirrorOf(e1.image, e2.image)

\* Two outputs for the same picture, one flipped and one not.
C7_Witness ==
    /\ image_size = 224 /\ fixres /\ train
    /\ \E e1, e2 \in Outputs :
          /\ e1.id # e2.id /\ e1.image.pic = e2.image.pic
          /\ e1.image.ops = <<"resize", "flip", "crop">>
          /\ e2.image.ops = <<"resize", "crop">>
          /\ ~SamePixels(e1.image, e2.image)

\* Every example of the pipeline, read from the source and not yet delivered
\* or delivered, in no particular order.
InPipeline ==
    shuffleBuf \o [k \in 1..Len(mapQueue) |-> mapQueue[k].elem] \o batchAcc
        \o Flatten(prefetchBuf) \o Flatten(consumed)

\* C8: every source example yields exactly one output example per pass, and
\* the output carries that example's label and shows that example's picture:
\* while the pass runs, each example read is at exactly one place of the
\* pipeline, and at the end of the pass each source example was delivered once.
C8_OneOutputOwnLabel ==
    Supported =>
        LET all == InPipeline IN
        /\ Len(all) = srcPos
        /\ \A i \in 0..(srcPos - 1) :
              Cardinality({k \in 1..Len(all) : all[k].id = i}) = 1
        /\ \A k \in 1..Len(all) :
              /\ all[k].label = all[k].id % 5
              /\ all[k].image.pic = Source(all[k].id).image.pic
        /\ pc = "done" =>
              /\ srcPos = num_examples
              /\ Len(Flatten(consumed)) = num_examples

\* A shuffled training pass over three examples delivered out of source order.
C8_Witness ==
    /\ pc = "done" /\ train /\ num_examples = 3
    /\ Len(Flatten(consumed)) = 3
    /\ Flatten(consumed)[1].id = 2
    /\ Flatten(consumed)[1].label = 2

\* C9: the fine-tune strategy resizes to 392 x 392 and its outputs are rows
\* 84..307 and columns 84..307 of the resized image (mirrored when flipped):
\* output row i samples the raw picture, of height h, where row i + 84 of a
\* 392-row resize does, at ((2*(i + 84) + 1) * h - 392) / (2 * 392).
C9_CropWindow ==
    (image_size = 224 /\ fixres) =>
        /\ size_for_resizing = 392
        /\ \A e \in Outputs :
              LET h == RawShapes[e.image.pic + 1][1]
                  w == RawShapes[e.image.pic + 1][2]
              IN  /\ e.image.row = <<2 * h, 2 * h * 84 + h - 392, 784>>
                  /\ "flip" \notin Range(e.image.ops) =>
                        e.image.col = <<2 * w, 2 * w * 84 + w - 392, 784>>
                  /\ "flip" \in Range(e.image.ops) =>
                        e.image.col = <<-2 * w, 2 * w * 307 + w - 392, 784>>
                  /\ 84 + e.image.shape[1] - 1 = 307
                  /\ 84 + e.image.shape[2] - 1 = 307
                  /\ 307 <= 392 - 1

\* The 300 x 400 picture, evaluation, through the fine-tune strategy.
C9_Witness ==
    /\ image_size = 224 /\ fixres /\ ~train
    /\ \E e \in Outputs :
          /\ RawShapes[e.image.pic + 1] = <<300, 400>>
          /\ e.image.shape = <<224, 224, 3>>
          /\ e.image.row = <<600, 50308, 784>>

\* C4: a pass over N source examples delivers ceil(N / 128) batches, each
\* of 128 examples except the last, which has N mod 128 when that is not 0;
\* N = 0 delivers none; train makes no difference.  While the pass runs, no
\* batch handed on is empty or larger than 128, and only the final batch of
\* the pass is smaller.
C4_BatchCount ==
    LET B == 128
        N == num_examples
        handed == consumed \o prefetchBuf
    IN  /\ \A k \in 1..Len(handed) :
              /\ Len(handed[k]) >= 1 /\ Len(handed[k]) <= B
              /\ Len(handed[k]) < B => (batchEnd /\ k = Len(handed))
        /\ pc = "done" =>
              /\ Len(consumed) = (N + B - 1) \div B
              /\ \A k \in 1..(Len(consumed) - 1) : Len(consumed[k]) = B
              /\ Len(consumed) > 0 =>
                    Len(consumed[Len(consumed)]) = IF N % B = 0 THEN B ELSE N % B

\* 257 examples, training: two full batches and a last batch of one.
C4_Witness ==
    /\ pc = "done" /\ train /\ num_examples = 257
    /\ Len(consumed) = 3
    /\ Len(consumed[1]) = 128 /\ Len(consumed[2]) = 128 /\ Len(consumed[3]) = 1

\* C5: when train is false, the k-th example delivered (k from 0: position
\* k mod 128 of batch k div 128) is the transform of the k-th source example,
\* however the parallel invocations of the transform interleave and whether
\* or not a batch waits in the prefetch buffer.
C5_EvalOrder ==
    ~train =>
        LET handed == consumed \o prefetchBuf \o <<batchAcc>>
            \* the transform of each raw picture, with no crop window and no flip
            expected == [pic \in 0..(Len(RawShapes) - 1) |->
                            ApplyPreprocess(preprocess_func, RawImage(pic), 0, FALSE,
                                WholeImage(RawImage(pic).shape), FALSE).image]
        IN  \A b \in 1..Len(handed) : \A p \in 1..Len(handed[b]) :
                LET k == (b - 1) * 128 + (p - 1)
                    e == handed[b][p]
                IN  /\ e.id = k
                    /\ e.label = k % 5
                    /\ e.image = expected[k % Len(RawShapes)]

\* Evaluation: a later invocation has finished before an earlier one, while
\* one batch has been delivered and the next is being assembled.
C5_Witness ==
    /\ ~train /\ Len(consumed) >= 1 /\ batchAcc # << >>
    /\ Len(mapQueue) = 2 /\ ~mapQueue[1].done /\ mapQueue[2].done

\* C10: the stages are shuffle, map, batch, prefetch when train is true and
\* map, batch, prefetch when it is false; the shuffle buffer never holds more
\* than 1280 examples, all of them untransformed; the example at position j
\* of the stream entering the map stage, hence of the output, has source
\* index below j + 1280; without a shuffle stage it has index j.
C10_ShuffleWindow ==
    pc \in {"iterating", "done"} =>
        /\ stages = IF train THEN <<"shuffle", "map", "batch", "prefetch">>
                             ELSE <<"map", "batch", "prefetch">>
        /\ Len(shuffleBuf) <= 1280
        /\ \A k \in 1..Len(shuffleBuf) : shuffleBuf[k].image.ops = << >>
        /\ \A k \in 1..Len(mapQueue) :
              /\ mapQueue[k].elem.id < mapQueue[k].pos + 1280
              /\ ~train => mapQueue[k].elem.id = mapQueue[k].pos
        /\ \A b \in 1..Len(prefetchBuf) : \A p \in 1..Len(prefetchBuf[b]) :
              prefetchBuf[b][p].id < (Len(consumed) + b - 1) * 128 + (p - 1) + 1280
        /\ ~train => shuffleBuf = << >>

\* Training over more than 1280 examples: the example at position 1 is the
\* last one the window allows, source index 1 + 1279.
C10_Witness ==
    /\ train /\ num_examples > 1280 /\ Len(shuffleBuf) = 1279
    /\ \E k \in 1..Len(mapQueue) :
          mapQueue[k].pos = 1 /\ mapQueue[k].elem.id = 1280

====
